---- MODULE Spec2Model ----
(***************************************************************************)
(* Yoto card reader (index.js, src/index.js).                              *)
(*                                                                         *)
(* Bytes are naturals 0..255 and a Buffer is a sequence of bytes (index i   *)
(* of the source is element i+1 here).  A JavaScript string is the          *)
(* sequence of its UTF-16 code units.                                      *)
(***************************************************************************)
EXTENDS Integers, Sequences, FiniteSets, TLC

VARIABLES
  call,       \* the helper being applied and its argument
  ret,        \* what the helper returned (done = FALSE before the call)
  prog,       \* which entry point runs: "index" (index.js) or "src_index" (src/index.js)
  crashed,    \* an exception escaped a handler (unhandled rejection)
  events,     \* number of 'card' events emitted so far
  handlers,   \* handlers[e]: the invocation of the card handler for event e
  cardsFile,  \* cards.json
  urlsFile,   \* urls.json
  dumps       \* the yoto-card-<uid>-<timestamp>.json files written by src/index.js

vars == <<call, ret, prog, crashed, events, handlers, cardsFile, urlsFile, dumps>>

pureVars == <<call, ret>>
appVars == <<prog, crashed, events, handlers, cardsFile, urlsFile, dumps>>

(***************************************************************************)
(* Bounds                                                                  *)
(***************************************************************************)
MaxDump == 5        \* longest memory dump given to findNdefMessage
MaxPayload == 3     \* longest payload given to parseUriRecord
MaxCodes == 3       \* longest code list given to decodePayload
MaxEvents == 2      \* card-present events in one run

(***************************************************************************)
(* Sequence helpers                                                        *)
(***************************************************************************)
SeqsUpTo(S, n) == UNION {[1..k -> S] : k \in 0..n}

Min(a, b) == IF a < b THEN a ELSE b

RECURSIVE Flatten(_)
Flatten(ss) == IF ss = <<>> THEN <<>> ELSE Head(ss) \o Flatten(Tail(ss))

\* Array.prototype.slice(1) / Buffer.prototype.slice(1)
SliceFrom0(s) == s

SliceFrom1(s) == IF s = <<>> THEN <<>> ELSE Tail(s)

\* Buffer.prototype.slice(start, end) for start >= 0: both ends are clamped
\* to the buffer, and an end before the start gives the empty buffer.
BufferSlice(data, start, end) ==
  LET s == Min(start, Len(data))
      e == Min(end, Len(data))
  IN  IF e > s THEN SubSeq(data, s + 1, e) ELSE <<>>

(***************************************************************************)
(* index.js: URI_PREFIXES                                                  *)
(***************************************************************************)
URI_PREFIXES ==
  [code \in 0..35 |->
    CASE code = 0 -> <<>>   \* 0x00: ''
      [] code = 1 -> <<104, 116, 116, 112, 58, 47, 47, 119, 119, 119, 46>>   \* 0x01: 'http://www.'
      [] code = 2 -> <<104, 116, 116, 112, 115, 58, 47, 47, 119, 119, 119, 46>>   \* 0x02: 'https://www.'
      [] code = 3 -> <<104, 116, 116, 112, 58, 47, 47>>   \* 0x03: 'http://'
      [] code = 4 -> <<104, 116, 116, 112, 115, 58, 47, 47>>   \* 0x04: 'https://'
      [] code = 5 -> <<116, 101, 108, 58>>   \* 0x05: 'tel:'
      [] code = 6 -> <<109, 97, 105, 108, 116, 111, 58>>   \* 0x06: 'mailto:'
      [] code = 7 -> <<102, 116, 112, 58, 47, 47, 97, 110, 111, 110, 121, 109, 111, 117, 115, 58, 97, 110, 111, 110, 121, 109, 111, 117, 115, 64>>   \* 0x07: 'ftp://anonymous:anonymous@'
      [] code = 8 -> <<102, 116, 112, 58, 47, 47, 102, 116, 112, 46>>   \* 0x08: 'ftp://ftp.'
      [] code = 9 -> <<102, 116, 112, 115, 58, 47, 47>>   \* 0x09: 'ftps://'
      [] code = 10 -> <<115, 102, 116, 112, 58, 47, 47>>   \* 0x0A: 'sftp://'
      [] code = 11 -> <<115, 109, 98, 58, 47, 47>>   \* 0x0B: 'smb://'
      [] code = 12 -> <<110, 102, 115, 58, 47, 47>>   \* 0x0C: 'nfs://'
      [] code = 13 -> <<102, 116, 112, 58, 47, 47>>   \* 0x0D: 'ftp://'
      [] code = 14 -> <<100, 97, 118, 58, 47, 47>>   \* 0x0E: 'dav://'
      [] code = 15 -> <<110, 101, 119, 115, 58>>   \* 0x0F: 'news:'
      [] code = 16 -> <<116, 101, 108, 110, 101, 116, 58, 47, 47>>   \* 0x10: 'telnet://'
      [] code = 17 -> <<105, 109, 97, 112, 58>>   \* 0x11: 'imap:'
      [] code = 18 -> <<114, 116, 115, 112, 58, 47, 47>>   \* 0x12: 'rtsp://'
      [] code = 19 -> <<117, 114, 110, 58>>   \* 0x13: 'urn:'
      [] code = 20 -> <<112, 111, 112, 58>>   \* 0x14: 'pop:'
      [] code = 21 -> <<115, 105, 112, 58>>   \* 0x15: 'sip:'
      [] code = 22 -> <<115, 105, 112, 115, 58>>   \* 0x16: 'sips:'
      [] code = 23 -> <<116, 102, 116, 112, 58>>   \* 0x17: 'tftp:'
      [] code = 24 -> <<98, 116, 115, 112, 112, 58, 47, 47>>   \* 0x18: 'btspp://'
      [] code = 25 -> <<98, 116, 108, 50, 99, 97, 112, 58, 47, 47>>   \* 0x19: 'btl2cap://'
      [] code = 26 -> <<98, 116, 103, 111, 101, 112, 58, 47, 47>>   \* 0x1A: 'btgoep://'
      [] code = 27 -> <<116, 99, 112, 111, 98, 101, 120, 58, 47, 47>>   \* 0x1B: 'tcpobex://'
      [] code = 28 -> <<105, 114, 100, 97, 111, 98, 101, 120, 58, 47, 47>>   \* 0x1C: 'irdaobex://'
      [] code = 29 -> <<102, 105, 108, 101, 58, 47, 47>>   \* 0x1D: 'file://'
      [] code = 30 -> <<117, 114, 110, 58, 101, 112, 99, 58, 105, 100, 58>>   \* 0x1E: 'urn:epc:id:'
      [] code = 31 -> <<117, 114, 110, 58, 101, 112, 99, 58, 116, 97, 103, 58>>   \* 0x1F: 'urn:epc:tag:'
      [] code = 32 -> <<117, 114, 110, 58, 101, 112, 99, 58, 112, 97, 116, 58>>   \* 0x20: 'urn:epc:pat:'
      [] code = 33 -> <<117, 114, 110, 58, 101, 112, 99, 58, 114, 97, 119, 58>>   \* 0x21: 'urn:epc:raw:'
      [] code = 34 -> <<117, 114, 110, 58, 101, 112, 99, 58>>   \* 0x22: 'urn:epc:'
      [] code = 35 -> <<117, 114, 110, 58, 110, 102, 99, 58>>   \* 0x23: 'urn:nfc:'
  ]

\* URI_PREFIXES[prefixCode] || '' : a key that is not in the object gives
\* undefined, which || replaces by ''.
PrefixLookup(isNumber, prefixCode) ==
  IF isNumber /\ prefixCode \in DOMAIN URI_PREFIXES
  THEN URI_PREFIXES[prefixCode]
  ELSE <<>>

(***************************************************************************)
(* Buffer.prototype.toString('utf8'): the UTF-8 decoder, which replaces     *)
(* every maximal ill-formed subsequence by U+FFFD, followed by the          *)
(* encoding of the code points as UTF-16 code units.                       *)
(***************************************************************************)
RECURSIVE Utf8CodePoints(_, _, _, _, _, _)
Utf8CodePoints(bytes, i, cp, needed, lower, upper) ==
  IF i > Len(bytes)
  THEN IF needed # 0 THEN <<65533>> ELSE <<>>
  ELSE
    LET b == bytes[i] IN
    IF needed = 0
    THEN
      IF b <= 127 THEN <<b>> \o Utf8CodePoints(bytes, i + 1, 0, 0, 128, 191)
      ELSE IF b \in 194..223 THEN Utf8CodePoints(bytes, i + 1, b - 192, 1, 128, 191)
      ELSE IF b \in 224..239
        THEN Utf8CodePoints(bytes, i + 1, b - 224, 2,
                            IF b = 224 THEN 160 ELSE 128,
                            IF b = 237 THEN 159 ELSE 191)
      ELSE IF b \in 240..244
        THEN Utf8CodePoints(bytes, i + 1, b - 240, 3,
                            IF b = 240 THEN 144 ELSE 128,
                            IF b = 244 THEN 143 ELSE 191)
      ELSE <<65533>> \o Utf8CodePoints(bytes, i + 1, 0, 0, 128, 191)
    ELSE
      IF b \notin lower..upper
      THEN <<65533>> \o Utf8CodePoints(bytes, i, 0, 0, 128, 191)
      ELSE
        LET cp2 == cp * 64 + (b - 128) IN
        IF needed = 1
        THEN <<cp2>> \o Utf8CodePoints(bytes, i + 1, 0, 0, 128, 191)
        ELSE Utf8CodePoints(bytes, i + 1, cp2, needed - 1, 128, 191)

Utf16Units(cp) ==
  IF cp < 65536 THEN <<cp>>
  ELSE <<55296 + ((cp - 65536) \div 1024), 56320 + ((cp - 65536) % 1024)>>

ToStringUtf8(bytes) ==
  LET cps == Utf8CodePoints(bytes, 1, 0, 0, 128, 191)
  IN  Flatten([k \in 1..Len(cps) |-> Utf16Units(cps[k])])

\* Buffer.prototype.toString('hex')
HexDigit(d) == IF d < 10 THEN 48 + d ELSE 97 + (d - 10)

ToStringHex(bytes) ==
  Flatten([k \in 1..Len(bytes) |-> <<HexDigit(bytes[k] \div 16), HexDigit(bytes[k] % 16)>>])

(***************************************************************************)
(* index.js: parseUriRecord                                                *)
(*                                                                         *)
(* The result carries, besides what the function returns, the indices of   *)
(* data it read and whether it threw.                                      *)
(***************************************************************************)
NoUri == [prefixCode |-> 0, prefix |-> <<>>, uri |-> <<>>, fullUri |-> <<>>,
          raw |-> [prefixCode |-> 0, uriData |-> <<>>]]

\* if (data.length < 2) return null;
ParseUriGuardNone(data) == FALSE

ParseUriGuard(data) == Len(data) < 2

parseUriRecord(data) ==
  IF ParseUriGuard(data)
  THEN [isNull |-> TRUE, threw |-> FALSE, reads |-> {}, value |-> NoUri]
  ELSE IF Len(data) = 0
  THEN \* data[0] is undefined and undefined.toString(16) throws a TypeError
       [isNull |-> TRUE, threw |-> TRUE, reads |-> {0}, value |-> NoUri]
  ELSE
    LET prefixCode == data[1]
        uriData == SliceFrom1(data)
        prefix == PrefixLookup(TRUE, prefixCode)
        uri == ToStringUtf8(uriData)
    IN  [isNull |-> FALSE, threw |-> FALSE, reads |-> 0..(Len(data) - 1),
         value |-> [prefixCode |-> prefixCode, prefix |-> prefix, uri |-> uri,
                    fullUri |-> prefix \o uri,
                    raw |-> [prefixCode |-> prefixCode,
                             uriData |-> ToStringHex(uriData)]]]

(***************************************************************************)
(* index.js: findNdefMessage                                               *)
(*                                                                         *)
(* The result carries, besides the returned value, the number of offsets   *)
(* the loop visited and the indices of data it read with data[i].          *)
(***************************************************************************)
ndefTlv == 3          \* 0x03, NDEF Message TLV
terminatorTlv == 254  \* 0xFE, Terminator TLV

\* data.slice(offset + 2, ...)
ValueStartOffByOne(offset) == offset + 1

ValueStart(offset) == offset + 2

\* data.slice(..., offset + 2 + length) with length = data[offset + 1]: past
\* the end data[offset + 1] is undefined, the sum is NaN, and slice takes a
\* NaN end as 0.
ValueEnd(data, offset) ==
  IF offset + 1 < Len(data) THEN offset + 2 + data[offset + 2] ELSE 0

\* } else if (type === terminatorTlv) { break; }
IsTerminatorNever(type) == FALSE

IsTerminator(type) == type = terminatorTlv

RECURSIVE ScanFrom(_, _, _, _)
ScanFrom(data, offset, visited, reads) ==
  IF ~(offset < Len(data))
  THEN [isNull |-> TRUE, bytes |-> <<>>, visited |-> visited, reads |-> reads]
  ELSE
    LET type == data[offset + 1] IN
    IF type = ndefTlv
    THEN [isNull |-> FALSE,
          bytes |-> BufferSlice(data, ValueStart(offset), ValueEnd(data, offset)),
          visited |-> visited + 1,
          reads |-> reads \cup {offset, offset + 1}]
    ELSE IF IsTerminator(type)
    THEN [isNull |-> TRUE, bytes |-> <<>>, visited |-> visited + 1,
          reads |-> reads \cup {offset}]
    ELSE ScanFrom(data, offset + 1, visited + 1, reads \cup {offset})

findNdefMessage(data) == ScanFrom(data, 0, 0, {})

(***************************************************************************)
(* index.js: decodePayload, and the string it is given                     *)
(***************************************************************************)
RECURSIVE DecimalDigits(_)
DecimalDigits(n) ==
  IF n < 10 THEN <<48 + n>> ELSE DecimalDigits(n \div 10) \o <<48 + (n % 10)>>

\* Number.prototype.toString() of an integer
NumberToString(n) == IF n < 0 THEN <<45>> \o DecimalDigits(0 - n) ELSE DecimalDigits(n)

\* record.getPayload().toString(): the elements of the array in decimal,
\* joined by ','
RECURSIVE ArrayToString(_)
ArrayToString(codes) ==
  IF codes = <<>> THEN <<>>
  ELSE IF Len(codes) = 1 THEN NumberToString(codes[1])
  ELSE NumberToString(codes[1]) \o <<44>> \o ArrayToString(Tail(codes))

\* String.prototype.split(','): the pieces between the commas (one piece,
\* the whole string, when there is no comma)
RECURSIVE SplitComma(_, _)
SplitComma(str, piece) ==
  IF str = <<>> THEN <<piece>>
  ELSE IF Head(str) = 44 THEN <<piece>> \o SplitComma(Tail(str), <<>>)
  ELSE SplitComma(Tail(str), Append(piece, Head(str)))

WhiteSpace == {9, 10, 11, 12, 13, 32, 160, 65279}

RECURSIVE TrimStart(_)
TrimStart(str) ==
  IF str # <<>> /\ Head(str) \in WhiteSpace THEN TrimStart(Tail(str)) ELSE str

RECURSIVE TrimEnd(_)
TrimEnd(str) ==
  IF str # <<>> /\ str[Len(str)] \in WhiteSpace
  THEN TrimEnd(SubSeq(str, 1, Len(str) - 1)) ELSE str

Trim(str) == TrimEnd(TrimStart(str))

\* the value of the longest prefix of str made of decimal digits
RECURSIVE DigitsValue(_, _)
DigitsValue(str, acc) ==
  IF str # <<>> /\ Head(str) \in 48..57
  THEN DigitsValue(Tail(str), acc * 10 + (Head(str) - 48))
  ELSE acc

\* parseInt(str, 10): leading white space is skipped, a sign is read, then
\* the digits up to the first character that is not one; NaN without a digit
ParseInt10(str) ==
  LET t == TrimStart(str)
      signed == t # <<>> /\ Head(t) \in {43, 45}
      digits == IF signed THEN Tail(t) ELSE t
      mag == DigitsValue(digits, 0)
  IN  IF digits = <<>> \/ Head(digits) \notin 48..57
      THEN [nan |-> TRUE, val |-> 0]
      ELSE [nan |-> FALSE, val |-> IF signed /\ Head(t) = 45 THEN 0 - mag ELSE mag]

\* String.fromCharCode(num): ToUint16(num), NaN giving 0
FromCharCode(num) == IF num.nan THEN 0 ELSE num.val % 65536

decodePayload(payload) ==
  LET pieces == SplitComma(payload, <<>>)
      numbers == [k \in 1..Len(pieces) |-> ParseInt10(Trim(pieces[k]))]
      prefixCode == numbers[1]
      prefix == PrefixLookup(~prefixCode.nan, prefixCode.val)
      rest == SliceFrom1(numbers)
      chars == [k \in 1..Len(rest) |-> FromCharCode(rest[k])]
  IN  prefix \o chars

(***************************************************************************)
(* The helpers applied to every input within the bounds                    *)
(***************************************************************************)
DumpBytes == {0, 1, 2, ndefTlv, terminatorTlv}
PayloadBytes == {0, 4, 35, 36, 97, 128, 195, 169}
Codes == {0, 4, 35, 36, 103, 128512}

Calls ==
  [fn : {"findNdefMessage"}, arg : SeqsUpTo(DumpBytes, MaxDump)]
    \cup [fn : {"parseUriRecord"}, arg : SeqsUpTo(PayloadBytes, MaxPayload)]
    \cup [fn : {"decodePayload"}, arg : SeqsUpTo(Codes, MaxCodes)]

NoCall == [fn |-> "none", arg |-> <<>>]
NoRet == [done |-> FALSE]

CallFindNdefMessage ==
  /\ call.fn = "findNdefMessage"
  /\ ~ret.done
  /\ ret' = [done |-> TRUE, out |-> findNdefMessage(call.arg)]
  /\ UNCHANGED <<call, appVars>>

CallParseUriRecord ==
  /\ call.fn = "parseUriRecord"
  /\ ~ret.done
  /\ ret' = [done |-> TRUE, out |-> parseUriRecord(call.arg)]
  /\ UNCHANGED <<call, appVars>>

\* decodePayload(record.getPayload().toString())
CallDecodePayload ==
  /\ call.fn = "decodePayload"
  /\ ~ret.done
  /\ ret' = [done |-> TRUE, out |-> decodePayload(ArrayToString(call.arg))]
  /\ UNCHANGED <<call, appVars>>

(***************************************************************************)
(* The card handler: reader.on('card', async (card) => { ... })            *)
(*                                                                         *)
(* An invocation runs from one await to the next in one step; between two  *)
(* awaits of one invocation the steps of the others may run.  pc names the *)
(* await the invocation is suspended at.                                   *)
(***************************************************************************)
Events == 1..MaxEvents
Uids == {"uidA"}

\* what reader.read(4, 48) resolves with: memory dumps without an NDEF
\* Message TLV (none at all, or only after the terminator), with an empty
\* one, with a whole one and with a truncated one
CardDumps ==
  { <<0, 0>>, <<terminatorTlv, ndefTlv, 0>>, <<ndefTlv, 0>>,
    <<0, ndefTlv, 2, 1, 2>>, <<ndefTlv, 2, 1>> }

\* The records @taptrack/ndef can hand back.  The library is not part of the
\* repository: ndef.Message.fromBytes either throws or returns records.
\* It is given messages of no record, of one and of two; the payloads
\* <<0, 97>> and <<36, 97>> decode to the same string 'a', <<4, 97>> to
\* 'https://a'.
Messages ==
  { <<>>,
    << [type |-> "U", payload |-> <<0, 97>>] >>,
    << [type |-> "U", payload |-> <<36, 97>>] >>,
    << [type |-> "U", payload |-> <<4, 97>>], [type |-> "T", payload |-> <<0, 97>>] >> }

LibraryOutcomes ==
  {[threw |-> TRUE, records |-> <<>>]} \cup [threw : {FALSE}, records : Messages]

MissingFile == [ok |-> FALSE, entries |-> <<>>, racing |-> FALSE]

NoFilename == [uid |-> "", timestamp |-> 0]

Idle ==
  [pc |-> "idle", uid |-> "", url |-> <<>>, data |-> <<>>, cards |-> <<>>,
   urls |-> <<>>, filename |-> NoFilename, input |-> "", outcome |-> "", log |-> "",
   wroteCards |-> FALSE, wroteUrls |-> FALSE]

\* the invocation is over: its locals are gone
Finish(h, outcome, log) ==
  [h EXCEPT !.pc = "done", !.outcome = outcome, !.log = log, !.uid = "",
            !.data = <<>>, !.cards = <<>>, !.urls = <<>>, !.filename = NoFilename]

\* The catch clause an exception thrown at a site of the handler reaches
\* ("none": it leaves the handler).
CatchClauseNoInner(program, site) ==
  IF program = "index"
  THEN IF site = "read" THEN "readErr" ELSE "none"
  ELSE "err"

CatchClause(program, site) ==
  IF program = "index"
  THEN IF site = "read" THEN "readErr" ELSE "ndefErr"
  ELSE "err"

LogOf(clause) ==
  CASE clause = "readErr" -> "Error reading card"
    [] clause = "ndefErr" -> "NDEF parse error"
    [] clause = "err" -> IF prog = "index" THEN "Error processing card"
                         ELSE "Error reading card"

\* handlers and crashed after invocation e throws at site, with h its record
Raise(e, h, site) ==
  LET clause == CatchClause(prog, site) IN
  IF clause = "none"
  THEN /\ crashed' = TRUE
       /\ handlers' = [handlers EXCEPT ![e] = [h EXCEPT !.pc = "failed"]]
  ELSE /\ crashed' = crashed
       /\ handlers' = [handlers EXCEPT ![e] = Finish(h, site, LogOf(clause))]

Proceed(e, h) ==
  /\ crashed' = crashed
  /\ handlers' = [handlers EXCEPT ![e] = h]

\* a 'card' event: the handler runs up to await reader.read(...)
CardEvent ==
  /\ ~crashed
  /\ events < MaxEvents
  /\ events' = events + 1
  /\ \E uid \in Uids :
       handlers' = [handlers EXCEPT ![events + 1] = [Idle EXCEPT !.pc = "read", !.uid = uid]]
  /\ UNCHANGED <<pureVars, prog, crashed, cardsFile, urlsFile, dumps>>

\* records.map(record => { ... }) (index.js)
RecordInfo(record) ==
  [type |-> record.type,
   payload |-> ToStringHex(record.payload),
   decodedPayload |-> decodePayload(ArrayToString(record.payload))]

\* if (parsedRecords.length > 0)
HasRecordsAlways(parsedRecords) == TRUE

HasRecords(parsedRecords) == Len(parsedRecords) > 0

\* parsedRecords[0].decodedPayload
FirstDecoded(parsedRecords) ==
  IF parsedRecords = <<>> THEN <<>> ELSE parsedRecords[1].decodedPayload

\* What the event gave the handler: a read that was rejected, a dump without
\* an NDEF Message TLV, a message the library rejects, a message of no
\* record, or a message with records.
InputOf(rejected, data, lib) ==
  IF rejected THEN "readError"
  ELSE IF \A o \in 1..Len(data) :
            data[o] = ndefTlv => \E j \in 1..(o - 1) : data[j] = terminatorTlv
    THEN "noTlv"
  ELSE IF lib.threw THEN "parseError"
  ELSE IF lib.records = <<>> THEN "zeroRecords"
  ELSE "records"

\* index.js: reader.read(4, 48) settles; the handler runs up to
\* await import('fs/promises')
ReadDone(e) ==
  /\ ~crashed
  /\ prog = "index"
  /\ handlers[e].pc = "read"
  /\ \E rejected \in BOOLEAN, data \in CardDumps, lib \in LibraryOutcomes :
       LET h == [handlers[e] EXCEPT !.input = InputOf(rejected, data, lib)]
           ndefData == findNdefMessage(data)
           parsedRecords == [k \in 1..Len(lib.records) |-> RecordInfo(lib.records[k])]
       IN  IF rejected THEN Raise(e, h, "read")
           ELSE IF ndefData.isNull
             THEN Proceed(e, Finish(h, "noTlv", "No NDEF TLV structure found in raw data"))
           ELSE IF lib.threw THEN Raise(e, h, "parse")
           ELSE IF HasRecords(parsedRecords)
             THEN Proceed(e, [h EXCEPT !.pc = "import", !.data = parsedRecords,
                                       !.url = FirstDecoded(parsedRecords)])
           ELSE Proceed(e, Finish(h, "zeroRecords", "No NDEF data found on card"))
  /\ UNCHANGED <<pureVars, prog, events, cardsFile, urlsFile, dumps>>

\* import('fs/promises') settles; the handler runs up to
\* await fs.readFile(cardsFile, 'utf8')
ImportDone(e) ==
  /\ ~crashed
  /\ prog = "index"
  /\ handlers[e].pc = "import"
  /\ Proceed(e, [handlers[e] EXCEPT !.pc = "readCards"])
  /\ UNCHANGED <<pureVars, prog, events, cardsFile, urlsFile, dumps>>

\* fs.readFile + JSON.parse: the array in the file, or the [] the empty
\* catch leaves when the read or the parse throws
ReadOutcomes(file) == {<<>>} \cup (IF file.ok THEN {file.entries} ELSE {})

\* fs.readFile(cardsFile) settles; the handler runs up to
\* await fs.readFile(urlsFile, 'utf8')
ReadCardsDone(e) ==
  /\ ~crashed
  /\ prog = "index"
  /\ handlers[e].pc = "readCards"
  /\ \E cards \in ReadOutcomes(cardsFile) :
       Proceed(e, [handlers[e] EXCEPT !.pc = "readUrls", !.cards = cards])
  /\ UNCHANGED <<pureVars, prog, events, cardsFile, urlsFile, dumps>>

\* cards.find(card => card.url === url)
ExistingCard(cards, url) == \E k \in 1..Len(cards) : cards[k].url = url

\* urls.includes(url)
IncludesNever(urls, url) == FALSE

Includes(urls, url) == \E k \in 1..Len(urls) : urls[k] = url

\* a writeFile on the file starts while others are in flight: they race
StartWrite(file, pcName, e) ==
  [file EXCEPT !.racing = @ \/ \E o \in Events \ {e} : handlers[o].pc = pcName]

\* lines 213-221: push to urls and await fs.writeFile(urlsFile), or be done
UrlsStep(e, h) ==
  IF ~Includes(h.urls, h.url)
  THEN /\ Proceed(e, [h EXCEPT !.pc = "writeUrls", !.urls = Append(h.urls, h.url)])
       /\ urlsFile' = StartWrite(urlsFile, "writeUrls", e)
  ELSE /\ Proceed(e, Finish(h, "ok", "URL already exists in urls.json"))
       /\ urlsFile' = urlsFile

\* fs.readFile(urlsFile) settles; the handler runs up to the next
\* await fs.writeFile(...), or to its end.  The entry pushed to cards is
\* {uid, timestamp, url, data}; its timestamp, the wall clock, which nothing
\* reads back, is left out.
ReadUrlsDone(e) ==
  /\ ~crashed
  /\ prog = "index"
  /\ handlers[e].pc = "readUrls"
  /\ \E urls \in ReadOutcomes(urlsFile) :
       LET h == [handlers[e] EXCEPT !.urls = urls] IN
       IF ExistingCard(h.cards, h.url)
       THEN /\ UrlsStep(e, h)
            /\ cardsFile' = cardsFile
       ELSE /\ Proceed(e, [h EXCEPT !.pc = "writeCards",
                                    !.cards = Append(h.cards,
                                                [uid |-> h.uid, url |-> h.url,
                                                 data |-> h.data])])
            /\ cardsFile' = StartWrite(cardsFile, "writeCards", e)
            /\ urlsFile' = urlsFile
  /\ UNCHANGED <<pureVars, prog, events, dumps>>

\* How a writeFile ends: "ok" the file holds the array; "openFail" it was not
\* opened and the file is as before; "writeFail" it was truncated and the
\* write failed; "torn" it raced with another writeFile on the file and the
\* file holds a mix of the two texts.
WriteResults(file) == {"ok", "openFail", "writeFail"} \cup (IF file.racing THEN {"torn"} ELSE {})

AfterWrite(file, result, array, pcName, e) ==
  LET racing == file.racing /\ \E o \in Events \ {e} : handlers[o].pc = pcName IN
  CASE result = "ok" -> [ok |-> TRUE, entries |-> array, racing |-> racing]
    [] result = "openFail" -> [file EXCEPT !.racing = racing]
    [] result \in {"writeFail", "torn"} -> [ok |-> FALSE, entries |-> <<>>, racing |-> racing]

\* fs.writeFile(cardsFile, ...) settles; the handler runs on to the urls
WriteCardsDone(e) ==
  /\ ~crashed
  /\ prog = "index"
  /\ handlers[e].pc = "writeCards"
  /\ \E result \in WriteResults(cardsFile) :
       LET h == [handlers[e] EXCEPT !.wroteCards = result # "openFail"] IN
       /\ cardsFile' = AfterWrite(cardsFile, result, h.cards, "writeCards", e)
       /\ IF result \in {"openFail", "writeFail"}
          THEN Raise(e, h, "write") /\ urlsFile' = urlsFile
          ELSE UrlsStep(e, h)
  /\ UNCHANGED <<pureVars, prog, events, dumps>>

\* fs.writeFile(urlsFile, ...) settles; the handler runs to its end
WriteUrlsDone(e) ==
  /\ ~crashed
  /\ prog = "index"
  /\ handlers[e].pc = "writeUrls"
  /\ \E result \in WriteResults(urlsFile) :
       LET h == [handlers[e] EXCEPT !.wroteUrls = result # "openFail"] IN
       /\ urlsFile' = AfterWrite(urlsFile, result, h.urls, "writeUrls", e)
       /\ IF result \in {"openFail", "writeFail"}
          THEN Raise(e, h, "write")
          ELSE Proceed(e, Finish(h, "ok", "URL added to urls.json"))
  /\ UNCHANGED <<pureVars, prog, events, cardsFile, dumps>>

(***************************************************************************)
(* src/index.js: the handler that saves each card to a file of its own     *)
(***************************************************************************)
\* reader.read(4, 12) settles; the handler runs up to
\* await import('fs/promises'), or to its end
ReadDoneSrc(e) ==
  /\ ~crashed
  /\ prog = "src_index"
  /\ handlers[e].pc = "read"
  /\ \E rejected \in BOOLEAN, lib \in LibraryOutcomes :
       LET h == [handlers[e] EXCEPT
                   !.input = IF rejected THEN "readError"
                             ELSE IF lib.threw THEN "parseError"
                             ELSE IF lib.records = <<>> THEN "zeroRecords"
                             ELSE "records"]
       IN
       IF rejected THEN Raise(e, h, "read")
       ELSE IF lib.threw THEN Raise(e, h, "parse")
       ELSE IF Len(lib.records) > 0
         THEN Proceed(e, [h EXCEPT !.pc = "import", !.data = lib.records,
                                   !.filename = [uid |-> h.uid, timestamp |-> events]])
       ELSE Proceed(e, Finish(h, "zeroRecords", "No NDEF data found on card"))
  /\ UNCHANGED <<pureVars, prog, events, cardsFile, urlsFile, dumps>>

\* import('fs/promises') settles; the handler runs up to await fs.writeFile
ImportDoneSrc(e) ==
  /\ ~crashed
  /\ prog = "src_index"
  /\ handlers[e].pc = "import"
  /\ Proceed(e, [handlers[e] EXCEPT !.pc = "writeDump"])
  /\ UNCHANGED <<pureVars, prog, events, cardsFile, urlsFile, dumps>>

\* fs.writeFile(filename, ...) settles; the handler runs to its end
WriteDumpDone(e) ==
  /\ ~crashed
  /\ prog = "src_index"
  /\ handlers[e].pc = "writeDump"
  /\ \E failed \in BOOLEAN :
       LET h == handlers[e] IN
       IF failed
       THEN Raise(e, h, "write") /\ dumps' = dumps
       ELSE /\ Proceed(e, Finish(h, "ok", "Data saved"))
            /\ dumps' = dumps \cup {h.filename}
  /\ UNCHANGED <<pureVars, prog, events, cardsFile, urlsFile>>

(***************************************************************************)
(* Specifications                                                          *)
(***************************************************************************)
\* the reader is attached and its 'card' handler registered
Init ==
  /\ call = NoCall
  /\ ret = NoRet
  /\ prog \in {"index", "src_index"}
  /\ crashed = FALSE
  /\ events = 0
  /\ handlers = [e \in Events |-> Idle]
  /\ cardsFile = MissingFile
  /\ urlsFile = MissingFile
  /\ dumps = {}

\* the continuation of invocation e that runs when its await settles
Settle(e) ==
  \/ ReadDone(e)
  \/ ImportDone(e)
  \/ ReadCardsDone(e)
  \/ ReadUrlsDone(e)
  \/ WriteCardsDone(e)
  \/ WriteUrlsDone(e)
  \/ ReadDoneSrc(e)
  \/ ImportDoneSrc(e)
  \/ WriteDumpDone(e)

Next ==
  \/ CardEvent
  \/ \E e \in Events : Settle(e)

Spec == Init /\ [][Next]_vars

\* every await of a running process settles, and the event loop then runs
\* the continuation
FairSpec == Spec /\ \A e \in Events : WF_vars(Settle(e))

PureInit ==
  /\ call \in Calls
  /\ ret = NoRet
  /\ prog = "index"
  /\ crashed = FALSE
  /\ events = 0
  /\ handlers = [e \in Events |-> Idle]
  /\ cardsFile = MissingFile
  /\ urlsFile = MissingFile
  /\ dumps = {}

PureNext ==
  \/ CallFindNdefMessage
  \/ CallParseUriRecord
  \/ CallDecodePayload

PureSpec == PureInit /\ [][PureNext]_vars

(***************************************************************************)
(* Properties of findNdefMessage (PureSpec)                                *)
(***************************************************************************)
Scanned == call.fn = "findNdefMessage" /\ ret.done

\* the offsets (from 0) of the 0x03 bytes that no 0xFE byte precedes
TagOffsets(data) ==
  {o \in 0..(Len(data) - 1) :
     /\ data[o + 1] = ndefTlv
     /\ \A j \in 0..(o - 1) : data[j + 1] # terminatorTlv}

FirstTagOffset(data) == CHOOSE o \in TagOffsets(data) : \A q \in TagOffsets(data) : o <= q

\* the TLV at the first tag has its length byte and all its value bytes
WholeTlv(data) ==
  /\ TagOffsets(data) # {}
  /\ LET o == FirstTagOffset(data) IN
       /\ o + 1 < Len(data)
       /\ Len(data) >= o + 2 + data[o + 2]

\* C1: when the first 0x03 byte that no 0xFE precedes is at offset o, L is
\* the byte at o+1 and the buffer has at least o+2+L bytes, findNdefMessage
\* returns exactly the L bytes at offsets o+2 .. o+2+L-1, whatever follows.
C1_FirstTlvValue ==
  (Scanned /\ WholeTlv(call.arg)) =>
    LET o == FirstTagOffset(call.arg)
        L == call.arg[o + 2]
    IN  /\ ~ret.out.isNull
        /\ ret.out.bytes = SubSeq(call.arg, o + 3, o + 2 + L)

\* a whole TLV with a value of one byte or more after an unknown tag, and a
\* second 0x03 byte after the value
C1_Witness ==
  /\ Scanned
  /\ WholeTlv(call.arg)
  /\ LET o == FirstTagOffset(call.arg)
         L == call.arg[o + 2]
     IN  /\ o > 0
         /\ L >= 1
         /\ \E j \in (o + 2 + L)..(Len(call.arg) - 1) : call.arg[j + 1] = ndefTlv
         /\ ret.out.bytes = SubSeq(call.arg, o + 3, o + 2 + L)

\* C2: findNdefMessage fails safe on a truncated TLV: when the length byte
\* of the first tag is missing or o+2+L exceeds the buffer length (so for
\* every buffer shorter than 2 bytes) it returns null; it never returns a
\* value of fewer than L bytes and never reads an index outside the buffer.
C2_FailsSafe ==
  Scanned =>
    /\ (TagOffsets(call.arg) # {} /\ ~WholeTlv(call.arg)) => ret.out.isNull
    /\ Len(call.arg) < 2 => ret.out.isNull
    /\ (~ret.out.isNull /\ FirstTagOffset(call.arg) + 1 < Len(call.arg)) =>
         Len(ret.out.bytes) = call.arg[FirstTagOffset(call.arg) + 2]
    /\ ret.out.reads \subseteq 0..(Len(call.arg) - 1)

\* C3: when no 0x03 byte occurs before the first 0xFE byte, findNdefMessage
\* returns null after visiting at most buffer-length offsets.
C3_NoTagIsAbsent ==
  (Scanned /\ TagOffsets(call.arg) = {}) =>
    /\ ret.out.isNull
    /\ ret.out.visited <= Len(call.arg)

\* a 0x03 byte after the 0xFE terminator, which the scan does not reach
C3_Witness ==
  /\ Scanned
  /\ TagOffsets(call.arg) = {}
  /\ \E j \in 1..Len(call.arg) : call.arg[j] = ndefTlv
  /\ ret.out.isNull
  /\ ret.out.visited < Len(call.arg)

(***************************************************************************)
(* Properties of parseUriRecord (PureSpec)                                 *)
(***************************************************************************)
Resolved == call.fn = "parseUriRecord" /\ ret.done

\* the prefix the NFC Forum table gives a code
TablePrefix(code) == IF code \in 0..35 THEN URI_PREFIXES[code] ELSE <<>>

\* C4: parseUriRecord is total on non-empty payloads: for every payload of
\* one or more bytes it returns a result with prefixCode payload[0], the
\* table's prefix (empty outside 0x00..0x23), the decoding of payload[1..]
\* as suffix, and prefix + suffix as the full string.
C4_TotalOnNonEmpty ==
  (Resolved /\ Len(call.arg) >= 1) =>
    /\ ~ret.out.isNull
    /\ ret.out.value.prefixCode = call.arg[1]
    /\ ret.out.value.prefix = TablePrefix(call.arg[1])
    /\ ret.out.value.uri = ToStringUtf8(Tail(call.arg))
    /\ ret.out.value.fullUri = TablePrefix(call.arg[1]) \o ToStringUtf8(Tail(call.arg))

\* C5: on a zero-length payload parseUriRecord returns its failure value
\* (null) without throwing and without reading payload[0].
C5_EmptyPayloadReturnsNull ==
  (Resolved /\ call.arg = <<>>) =>
    /\ ret.out.isNull
    /\ ~ret.out.threw
    /\ 0 \notin ret.out.reads

C5_Witness ==
  /\ Resolved
  /\ call.arg = <<>>
  /\ ret.out.isNull
  /\ ret.out.reads = {}

(***************************************************************************)
(* Properties of decodePayload (PureSpec)                                  *)
(***************************************************************************)
Decoded == call.fn = "decodePayload" /\ ret.done

\* C6 as stated: on the list c0,c1,...,cn of integers decodePayload returns
\* prefix(c0) followed by the characters with codes c1..cn in order.
C6_AnyIntegers ==
  (Decoded /\ call.arg # <<>>) =>
    ret.out = TablePrefix(call.arg[1]) \o Tail(call.arg)

\* C6: on the list c0,c1,...,cn of integers with c1..cn in 0..65535,
\* decodePayload returns prefix(c0) followed by the characters with codes
\* c1..cn in order.
C6_CharCodes ==
  (/\ Decoded
   /\ call.arg # <<>>
   /\ \A k \in 2..Len(call.arg) : call.arg[k] \in 0..65535) =>
    ret.out = TablePrefix(call.arg[1]) \o Tail(call.arg)

\* "4,103,103" gives "https://gg"
C6_Witness ==
  /\ Decoded
  /\ call.arg = <<4, 103, 103>>
  /\ ret.out = <<104, 116, 116, 112, 115, 58, 47, 47, 103, 103>>

(***************************************************************************)
(* Properties of the card handler of index.js                              *)
(***************************************************************************)
NoRepeat(seq) == \A i, j \in 1..Len(seq) : i # j => seq[i] # seq[j]

\* C7: after any sequence of card events, also of the same URL and with
\* interleaved handlers, no URL is twice in urls.json and no two entries of
\* cards.json carry the same url.
C7_NoDuplicateUrl ==
  /\ NoRepeat(urlsFile.entries)
  /\ NoRepeat([k \in 1..Len(cardsFile.entries) |-> cardsFile.entries[k].url])

\* two handlers of the same URL have both written both stores
C7_Witness ==
  \E a, b \in Events :
    /\ a # b
    /\ handlers[a].pc = "done" /\ handlers[b].pc = "done"
    /\ handlers[a].outcome = "ok" /\ handlers[b].outcome = "ok"
    /\ handlers[a].url = handlers[b].url
    /\ handlers[a].wroteCards /\ handlers[a].wroteUrls
    /\ handlers[b].wroteCards /\ handlers[b].wroteUrls
    /\ urlsFile.ok /\ urlsFile.entries = <<handlers[a].url>>
    /\ cardsFile.ok /\ Len(cardsFile.entries) = 1

\* every handler that was started has run to its end
AllHandled == \A e \in Events : handlers[e].pc \in {"idle", "done"}

\* C8: whatever a card event brings (read, scan, parse or store failure), no
\* exception leaves the handler and the process lives on, and every handler
\* that started finishes (an ended handler stays ended, so in the end all
\* started handlers have ended), each later event being processed as well.
C8_HandlerAlwaysFinishes ==
  /\ [](~crashed)
  /\ <>[]AllHandled

\* a handler that failed writing a store, and a later one that ended well
C8_Witness ==
  \E a, b \in Events :
    /\ a < b
    /\ handlers[a].pc = "done" /\ handlers[a].outcome = "write"
    /\ handlers[b].pc = "done" /\ handlers[b].outcome = "ok"
    /\ ~crashed

IsPrefix(s, t) == Len(s) <= Len(t) /\ SubSeq(t, 1, Len(s)) = s

\* after holds an array (the write, if any, completed): the entries of
\* before are its first entries, and it has at most one more
AppendOnly(before, after) ==
  after.ok =>
    /\ IsPrefix(before.entries, after.entries)
    /\ Len(after.entries) <= Len(before.entries) + 1

\* C9: cards.json and urls.json are append-only: every write a handler
\* completes leaves the entries of the store in place and in order, and adds
\* at most one at the end, also with interleaved handlers and when a store
\* read fails.
C9_AppendOnly ==
  [][AppendOnly(cardsFile, cardsFile') /\ AppendOnly(urlsFile, urlsFile')]_vars

\* C10: an event that brings a card read error, a dump without NDEF TLV, an
\* NDEF parse error or a message of no record writes to neither store.
C10_NoWriteWithoutRecords ==
  \A e \in Events :
    handlers[e].input \in {"readError", "noTlv", "parseError", "zeroRecords"} =>
      /\ ~handlers[e].wroteCards
      /\ ~handlers[e].wroteUrls

\* an event with a message of no record is over, and the stores hold what
\* the handler of another event wrote
C10_Witness ==
  /\ prog = "index"
  /\ \E a, b \in Events :
       /\ handlers[a].wroteCards /\ handlers[a].wroteUrls
       /\ handlers[b].pc = "done"
       /\ handlers[b].input = "zeroRecords"
       /\ cardsFile.ok /\ Len(cardsFile.entries) = 1

====
